---- MODULE Spec2Model ----
(***************************************************************************)
(* A model of precord: the registration handshake of src/precord/web.py    *)
(* (GET /join, GET /redirect) over the pending and active tables of        *)
(* src/precord/database.py, with the value routines of                     *)
(* src/precord/values.py.                                                  *)
(*                                                                         *)
(* Every await of a handler is a point where other requests may run, so a  *)
(* handler is one action per awaited store or HTTP call.  Time is counted  *)
(* in minutes.  A state token is modelled by its issue number: the 23      *)
(* random characters of generate_state_token are taken to be fresh on      *)
(* every call.                                                             *)
(***************************************************************************)
EXTENDS Integers, Sequences, FiniteSets, Bags, TLC

\* ------------------------------------------------------------------ bounds

\* How many state tokens are issued in a run (the number of /join requests
\* that reach the pending upsert).
MaxTokens == 2

\* The clock stops advancing at this minute.
MaxTime == 31

\* The clock advances by one of these steps, so that a pending row can be
\* exactly STATE_TOKEN_LIFETIME old, and one minute older.
TickSteps == {30, 31}

\* Requests in flight at the same time.
Workers == {"w1", "w2"}

\* The ticket positions of the run: (order_code, position).
OrderCodes == {"ABC1"}
PositionIds == {1, 2}

\* Discord user ids that GET /users/@me may return.
UserIds == {"99"}

\* ------------------------------------------------------- python's None

None == [none |-> TRUE]
Some(v) == [some |-> v]

\* A call's result: a value, or the exception it raised.
Ok(v) == [ok |-> TRUE, value |-> v]
Raise(e) == [ok |-> FALSE, error |-> e]

\* What a subscript with a key the mapping does not hold raises.
KeyError == Raise("KeyError")

\* ------------------------------------------------------------- values.py

\* The role ids, each reduced modulo 10^9 to fit TLC's integers;
\* the ten ids stay distinct.
ROLE_IDS ==
  [ volunteer  |-> 493305379,
    core       |-> 493305380,
    av         |-> 493305378,
    specialist |-> 258420242,
    education  |-> 258420238,
    scientific |-> 258420241,
    devoops    |-> 258420240,
    speaker    |-> 493305377,
    sprints    |-> 258420237,
    sponsor    |-> 493305376 ]

ITEM_IDS ==
  [ team_member |-> {569202, 637767},
    speaker     |-> {569203, 637766},
    sprints     |-> {569209, 569215, 569216} ]

TeamNames ==
  { "Volunteer Team", "Core Team", "AV Team", "Education",
    "Scientific Python", "All Things Data", "DevOops" }

TEAM_ROLES ==
  [ t \in TeamNames |->
      CASE t = "Volunteer Team"    -> << ROLE_IDS.volunteer >>
        [] t = "Core Team"         -> << ROLE_IDS.core >>
        [] t = "AV Team"           -> << ROLE_IDS.av >>
        [] t = "Education"         -> << ROLE_IDS.specialist, ROLE_IDS.education >>
        [] t = "Scientific Python" -> << ROLE_IDS.specialist, ROLE_IDS.scientific >>
        [] t = "All Things Data"   -> << ROLE_IDS.specialist, ROLE_IDS.scientific >>
        [] t = "DevOops"           -> << ROLE_IDS.specialist, ROLE_IDS.devoops >> ]

Range(s) == { s[i] : i \in DOMAIN s }

NoDuplicates(s) == \A i, j \in DOMAIN s : s[i] = s[j] => i = j

\* answers.get(key, default)
Get(answers, key, default) ==
  IF key \in DOMAIN answers THEN answers[key] ELSE default

\* set.add: the python set `roles` is kept as the sequence of its members
\* in insertion order; adding a member it holds changes nothing.
SetAdd(roles, role) ==
  IF role \in Range(roles) THEN roles ELSE Append(roles, role)

\* set.update(iterable)
RECURSIVE SetUpdate(_, _)
SetUpdate(roles, more) ==
  IF more = << >> THEN roles
  ELSE SetUpdate(SetAdd(roles, Head(more)), Tail(more))

\* roles.update(TEAM_ROLES[answers["team"]]), written as an assignment.
TeamUpdate_assign(roles, answers) ==
  IF "team" \notin DOMAIN answers \/ answers["team"] \notin TeamNames
  THEN KeyError
  ELSE Ok(TEAM_ROLES[answers["team"]])

\* roles.update(TEAM_ROLES.get(answers.get("team"), [])): no team, no roles.
TeamUpdate_lenient(roles, answers) ==
  IF "team" \notin DOMAIN answers \/ answers["team"] \notin TeamNames
  THEN Ok(roles)
  ELSE Ok(SetUpdate(roles, TEAM_ROLES[answers["team"]]))

\* roles.update(TEAM_ROLES[answers["team"]]): both subscripts raise KeyError
\* on a key they do not hold.
TeamUpdate(roles, answers) ==
  IF "team" \notin DOMAIN answers \/ answers["team"] \notin TeamNames
  THEN KeyError
  ELSE Ok(SetUpdate(roles, TEAM_ROLES[answers["team"]]))

\* The body of `for item in items` for one item.
RoleLoopBody(roles, item, answers) ==
  LET r1 == IF item \in ITEM_IDS.team_member
            THEN TeamUpdate(roles, answers) ELSE Ok(roles)
  IN  IF ~r1.ok THEN r1
      ELSE LET r2 == IF item \in ITEM_IDS.speaker
                     THEN SetAdd(r1.value, ROLE_IDS.speaker) ELSE r1.value
               r3 == IF item \in ITEM_IDS.sprints
                     THEN SetAdd(r2, ROLE_IDS.sprints) ELSE r2
           IN  Ok(r3)

\* What follows the loop: the sponsor role, then list(roles).
RoleLoopEnd(roles, answers) ==
  IF Get(answers, "sponsor", "") = "True"
  THEN SetAdd(roles, ROLE_IDS.sponsor) ELSE roles

\* The loop over a visiting order of the items.
RECURSIVE RoleLoop(_, _, _)
RoleLoop(roles, order, answers) ==
  IF order = << >> THEN Ok(roles)
  ELSE LET r == RoleLoopBody(roles, Head(order), answers)
       IN  IF ~r.ok THEN r ELSE RoleLoop(r.value, Tail(order), answers)

\* One visiting order of a set of integers: ascending.
RECURSIVE Ascending(_)
Ascending(S) ==
  IF S = {} THEN << >>
  ELSE LET m == CHOOSE x \in S : \A y \in S : x <= y
       IN  << m >> \o Ascending(S \ {m})

generate_role_list(items, answers) ==
  LET r == RoleLoop(<< >>, Ascending(items), answers)
  IN  IF ~r.ok THEN r ELSE Ok(RoleLoopEnd(r.value, answers))

generate_nickname(answers) ==
  IF "primary_name" \notin DOMAIN answers THEN Ok(None)
  ELSE IF "east_asian_name_order" \notin DOMAIN answers THEN KeyError
  ELSE IF answers["east_asian_name_order"] = "True"
  THEN Ok(Some(Get(answers, "additional_names", "") \o " " \o answers["primary_name"]))
  ELSE Ok(Some(answers["primary_name"] \o " " \o Get(answers, "additional_names", "")))

\* ----------------------------------------------------------- database.py

\* A ticket position is (order_code, position); both tables are keyed by it.
Keys == OrderCodes \X PositionIds

SameKey(row, order_code, position) ==
  row.order_code = order_code /\ row.position = position

\* INSERT INTO pending without the ON CONFLICT clause.
insert_pending_plain(table, row) == table \cup {row}

\* The upsert with the state token as its conflict target.
insert_pending_onToken(table, row) ==
  { r \in table : r.state_token # row.state_token } \cup {row}

\* INSERT INTO pending ... ON CONFLICT (order_code, position) DO UPDATE SET
\* state_token, created, nickname, roles.
insert_pending(table, row) ==
  { r \in table : ~SameKey(r, row.order_code, row.position) } \cup {row}

\* The SELECT without its WHERE clause.
select_pending_any(table, state) ==
  IF table = {} THEN None
  ELSE LET r == CHOOSE h \in table : TRUE
       IN  [ order_code |-> r.order_code, position |-> r.position,
             created |-> r.created, nickname |-> r.nickname,
             roles |-> r.roles ]

\* SELECT order_code, position, created, nickname, roles FROM pending
\* WHERE state_token = $1, then fetchrow: the first row, or None.
select_pending(table, state) ==
  LET hits == { r \in table : r.state_token = state }
  IN  IF hits = {} THEN None
      ELSE LET r == CHOOSE h \in hits : TRUE
           IN  [ order_code |-> r.order_code, position |-> r.position,
                 created |-> r.created, nickname |-> r.nickname,
                 roles |-> r.roles ]

\* A DELETE that removes nothing.
delete_pending_noop(table, order_code, position) == table

\* The DELETE with the order code alone as its WHERE clause.
delete_pending_wholeOrder(table, order_code, position) ==
  { r \in table : r.order_code # order_code }

\* DELETE FROM pending WHERE order_code = $1 AND position = $2
delete_pending(table, order_code, position) ==
  { r \in table : ~SameKey(r, order_code, position) }

\* The statement behind InsertActive: an upsert over the ticket position.
insert_active(table, row) ==
  { r \in table : ~SameKey(r, row.order_code, row.position) } \cup {row}

\* The statement behind SelectActive, then fetchrow.
select_active(table, order_code, position) ==
  LET hits == { r \in table : SameKey(r, order_code, position) }
  IN  IF hits = {} THEN None ELSE CHOOSE h \in hits : TRUE

\* ----------------------------------------------------------------- web.py

\* class Settings with the environment setting none of its optional fields:
\* state_token_lifetime keeps its default, timedelta(minutes=1800).
Settings == [ state_token_lifetime |-> 1800 ]

STATE_TOKEN_LIFETIME == 30

\* What the ticket provider answers for a ticket position: the items of
\* the order's positions and the answers of the position.  A team member's
\* order, a speaker's of a sponsor, and one whose team answer names no team.
TeamMemberOrder ==
  [ items   |-> {569202},
    answers |-> [ team |-> "Core Team", primary_name |-> "Ada",
                  additional_names |-> "J.",
                  east_asian_name_order |-> "False" ] ]

SpeakerOrder ==
  [ items   |-> {569203, 569209},
    answers |-> [ sponsor |-> "True" ] ]

UnknownTeamOrder ==
  [ items   |-> {637767},
    answers |-> [ team |-> "Board" ] ]

\* Position 1 is the team member's; position 2 comes with either of the
\* other two orders.
OrderData(order_code, position) ==
  IF position = 1 THEN { TeamMemberOrder }
  ELSE { SpeakerOrder, UnknownTeamOrder }

\* A state token no /join ever issued.
BogusToken == 0

\* HTMLResponse(error_template.render(message=...), status_code=...)
HTMLResponse(message, status_code) ==
  [ status_code |-> status_code, message |-> message, location |-> "" ]

\* RedirectResponse(url, status_code=...)
RedirectResponse(url, status_code) ==
  [ status_code |-> status_code, message |-> "", location |-> url ]

\* The 500 handler answering with the page of an unknown state token.
custom_500_handler_invalidState ==
  HTMLResponse("Registration is in invalid state", 400)

\* What the caller gets when a handler raises: the page of the 500 handler,
\* sent with HTTPStatus.BAD_REQUEST.
custom_500_handler == HTMLResponse("An internal error occurred", 400)

InvalidTokenResponse ==
  HTMLResponse("Registration is in invalid state", 400)

ExpiredResponse == HTMLResponse("Registration has expired", 400)

GrantFailedResponse ==
  HTMLResponse("Discord registration request failed", 503)

CompletedResponse == RedirectResponse("https://discord.com/channels/", 302)

\* What /redirect sends for each way it ends; raise_for_status raises
\* HTTPStatusError, which nothing in /redirect catches.
RedirectResult(outcome) ==
  CASE outcome = "InvalidToken"  -> InvalidTokenResponse
    [] outcome = "Expired"       -> ExpiredResponse
    [] outcome = "LinkingFailed" -> custom_500_handler
    [] outcome = "GrantFailed"   -> GrantFailedResponse
    [] outcome = "Completed"     -> CompletedResponse

VARIABLES
  now,        \* datetime.now(tz=UTC), in minutes
  pending,    \* the rows of table pending
  active,     \* the rows of table active
  req,        \* the requests in flight (a bag): handler, place, locals
  response,   \* the response this step returned to a caller, if it did
  issued,     \* issued[t]: the pending row /join wrote with state token t
  consumed,   \* the tokens whose /redirect has executed its DELETE
  exchanges,  \* exchanges[t]: POSTs to the token endpoint by /redirect?state=t
  grants,     \* grants[k]: PUTs of the guild member for ticket position k
  calc        \* a call of a values.py routine, run on its own

vars ==
  << now, pending, active, req, response, issued, consumed, exchanges, grants,
     calc >>

\* The locals of a handler before its first await.
Fresh ==
  [ op |-> "", pc |-> "", order_code |-> "", position |-> 0,
    order |-> None, state |-> BogusToken, row |-> None, user |-> None ]

NoResponse ==
  [ op |-> "", order_code |-> "", position |-> 0, state |-> BogusToken,
    outcome |-> "" ]

CalcIdle == [ pc |-> "idle" ]

InFlight == BagToSet(req)

\* What the caller of a request with locals q is answered.
Response(q, outcome) ==
  [ op |-> q.op, order_code |-> q.order_code, position |-> q.position,
    state |-> q.state, outcome |-> outcome ]

\* The handler of request q returns: the response is the caller's.
Return(q, outcome) ==
  /\ req' = req (-) SetToBag({q})
  /\ response' = Response(q, outcome)

\* The handler of request q goes on to its next await, with locals q2.
Goto(q, q2) ==
  /\ req' = (req (-) SetToBag({q})) (+) SetToBag({q2})
  /\ response' = NoResponse

\* A request arrives and runs to its first answer from the store: it
\* returns `outcome`, or goes on with locals q.
Arrive(q, returns, outcome) ==
  /\ BagCardinality(req) < Cardinality(Workers)
  /\ IF returns
     THEN /\ req' = req
          /\ response' = Response(q, outcome)
     ELSE /\ req' = req (+) SetToBag({q})
          /\ response' = NoResponse

Init ==
  /\ now = 0
  /\ pending = {}
  /\ active = {}
  /\ req = EmptyBag
  /\ response = NoResponse
  /\ issued = << >>
  /\ consumed = {}
  /\ exchanges = [ t \in 1..MaxTokens |-> 0 ]
  /\ grants = [ k \in Keys |-> 0 ]
  /\ calc = CalcIdle

\* The clock.
Tick ==
  /\ \E d \in TickSteps : now + d <= MaxTime /\ now' = now + d
  /\ response' = NoResponse
  /\ UNCHANGED << pending, active, req, issued, consumed, exchanges, grants, calc >>

\* The /join short cut, with the test on the row left out.
AlreadyActive_never(row) == FALSE

\* The /join short cut taken only for an active row written this minute.
AlreadyActive_recent(row) == row # None /\ row.created = now

\* `if row is not None` after select_active.fetchrow
AlreadyActive(row) == row # None

\* How many /join requests are in flight; each may go on to issue a token.
JoinsInFlight ==
  LET joins == { q \in InFlight : q.op = "join" }
  IN  BagCardinality([ q \in joins |-> req[q] ])

\* GET /join with a valid ticket for (order_code, position), whose order the
\* ticket provider answers with `order`: up to the lookup in active.  A
\* request that would go on is admitted while a token is left for it.
Join(order_code, position, order) ==
  /\ UNCHANGED << now, pending, active, issued, consumed, exchanges, grants, calc >>
  /\ LET row == select_active(active, order_code, position)
     IN  AlreadyActive(row) \/ Len(issued) + JoinsInFlight < MaxTokens
  /\ LET row == select_active(active, order_code, position)
         q   == [ Fresh EXCEPT !.op = "join", !.order_code = order_code,
                               !.position = position ]
     IN  Arrive([ q EXCEPT !.pc = "insert_pending", !.order = order ],
                AlreadyActive(row), "AlreadyActive")

\* The rest of /join: nickname and roles, a fresh state token, the upsert.
\* An exception of a values.py routine ends the request in the 500 handler.
JoinInsertPending(q) ==
  /\ q.op = "join" /\ q.pc = "insert_pending"
  /\ LET nickname == generate_nickname(q.order.answers)
         roles    == IF nickname.ok
                     THEN generate_role_list(q.order.items, q.order.answers)
                     ELSE nickname
     IN  IF ~roles.ok
         THEN /\ Return(q, "InternalError")
              /\ UNCHANGED << pending, issued >>
         ELSE /\ Len(issued) < MaxTokens
              /\ LET state_token == Len(issued) + 1
                     row == [ order_code |-> q.order_code, position |-> q.position,
                              state_token |-> state_token, created |-> now,
                              nickname |-> nickname.value, roles |-> roles.value ]
                 IN  /\ pending' = insert_pending(pending, row)
                     /\ issued' = Append(issued, row)
                     /\ req' = req (-) SetToBag({q})
                     /\ response' =
                          Response([ q EXCEPT !.state = state_token ], "Started")
  /\ UNCHANGED << now, active, consumed, exchanges, grants, calc >>

\* `if row is None` after select_pending.fetchrow
RowMissing(row) == row = None

\* GET /redirect?state=...: up to the lookup in pending.  A caller holds a
\* token some /join handed out, or one it made up.
Redirect(state) ==
  /\ UNCHANGED << now, pending, active, issued, consumed, exchanges, grants, calc >>
  /\ state \in {BogusToken} \cup (1..Len(issued))
  /\ LET row == select_pending(pending, state)
         q   == [ Fresh EXCEPT !.op = "redirect", !.state = state ]
     IN  Arrive(IF RowMissing(row) THEN q
                ELSE [ q EXCEPT !.pc = "delete_pending", !.row = row,
                                !.order_code = row.order_code,
                                !.position = row.position ],
                RowMissing(row), "InvalidToken")

\* The DELETE moved behind the expiry test: an expired row is left alone.
RedirectDelete_checkFirst(q) ==
  /\ q.op = "redirect" /\ q.pc = "delete_pending"
  /\ IF q.row.created + STATE_TOKEN_LIFETIME < now
     THEN UNCHANGED << pending, consumed >>
     ELSE /\ pending' = { r \in pending :
                            ~SameKey(r, q.row.order_code, q.row.position) }
          /\ consumed' = consumed \cup {q.state}
  /\ Goto(q, [ q EXCEPT !.pc = "exchange" ])
  /\ UNCHANGED << now, active, issued, exchanges, grants, calc >>

\* The DELETE with the state token as its WHERE clause.
RedirectDelete_byToken(q) ==
  /\ q.op = "redirect" /\ q.pc = "delete_pending"
  /\ pending' = { r \in pending : r.state_token # q.state }
  /\ consumed' = consumed \cup {q.state}
  /\ Goto(q, [ q EXCEPT !.pc = "exchange" ])
  /\ UNCHANGED << now, active, issued, exchanges, grants, calc >>

\* The DELETE run against both tables.
RedirectDelete_bothTables(q) ==
  /\ q.op = "redirect" /\ q.pc = "delete_pending"
  /\ pending' = delete_pending(pending, q.row.order_code, q.row.position)
  /\ active' = delete_pending(active, q.row.order_code, q.row.position)
  /\ consumed' = consumed \cup {q.state}
  /\ Goto(q, [ q EXCEPT !.pc = "exchange" ])
  /\ UNCHANGED << now, issued, exchanges, grants, calc >>

\* await delete_pending.executemany([(row["order_code"], row["position"])])
RedirectDelete(q) ==
  /\ q.op = "redirect" /\ q.pc = "delete_pending"
  /\ pending' = delete_pending(pending, q.row.order_code, q.row.position)
  /\ consumed' = consumed \cup {q.state}
  /\ Goto(q, [ q EXCEPT !.pc = "exchange" ])
  /\ UNCHANGED << now, active, issued, exchanges, grants, calc >>

\* The expiry test with its operands swapped.
Expired_swapped(created, at) == created - at > STATE_TOKEN_LIFETIME

\* datetime.now(tz=UTC) - row["created"] > STATE_TOKEN_LIFETIME
Expired(created, at) == at - created > STATE_TOKEN_LIFETIME

\* The expiry test, then the POST to the token endpoint; raise_for_status
\* raises on an error answer.
RedirectExchange(q) ==
  /\ q.op = "redirect" /\ q.pc = "exchange"
  /\ IF Expired(q.row.created, now)
     THEN /\ Return(q, "Expired")
          /\ UNCHANGED exchanges
     ELSE /\ exchanges' = [ exchanges EXCEPT ![q.state] = @ + 1 ]
          /\ \E answered \in BOOLEAN :
               IF answered THEN Goto(q, [ q EXCEPT !.pc = "fetch_user" ])
               ELSE Return(q, "LinkingFailed")
  /\ UNCHANGED << now, pending, active, issued, consumed, grants, calc >>

\* GET /users/@me with the access token; raise_for_status again.
RedirectFetchUser(q) ==
  /\ q.op = "redirect" /\ q.pc = "fetch_user"
  /\ \/ \E id \in UserIds :
          Goto(q, [ q EXCEPT !.pc = "insert_active", !.user = Some(id) ])
     \/ Return(q, "LinkingFailed")
  /\ UNCHANGED << now, pending, active, issued, consumed, exchanges, grants, calc >>

\* The active row /redirect writes, with the completion time as created.
ActiveRow_createdNow(row, user, at) ==
  [ order_code |-> row.order_code, position |-> row.position,
    user_id |-> user.some, created |-> at,
    nickname |-> row.nickname, roles |-> row.roles ]

\* The active row /redirect writes: the pending row's columns and the id of
\* the Discord user.
ActiveRow(row, user, at) ==
  [ order_code |-> row.order_code, position |-> row.position,
    user_id |-> user.some, created |-> row.created,
    nickname |-> row.nickname, roles |-> row.roles ]

\* await insert_active.executemany([...])
RedirectInsertActive(q) ==
  /\ q.op = "redirect" /\ q.pc = "insert_active"
  /\ active' = insert_active(active, ActiveRow(q.row, q.user, now))
  /\ Goto(q, [ q EXCEPT !.pc = "put_member" ])
  /\ UNCHANGED << now, pending, issued, consumed, exchanges, grants, calc >>

\* The PUT with the active row taken back when it is refused.
RedirectPutMember_rollback(q) ==
  /\ q.op = "redirect" /\ q.pc = "put_member"
  /\ grants' = [ grants EXCEPT ![<< q.order_code, q.position >>] = @ + 1 ]
  /\ \E granted \in BOOLEAN :
       /\ Return(q, IF granted THEN "Completed" ELSE "GrantFailed")
       /\ active' = IF granted THEN active
                    ELSE delete_pending(active, q.order_code, q.position)
  /\ UNCHANGED << now, pending, issued, consumed, exchanges, calc >>

\* PUT /guilds/{guild}/members/{user}: OK, CREATED or NO_CONTENT is success.
RedirectPutMember(q) ==
  /\ q.op = "redirect" /\ q.pc = "put_member"
  /\ grants' = [ grants EXCEPT ![<< q.order_code, q.position >>] = @ + 1 ]
  /\ \E granted \in BOOLEAN :
       Return(q, IF granted THEN "Completed" ELSE "GrantFailed")
  /\ UNCHANGED << now, pending, active, issued, consumed, exchanges, calc >>

Next ==
  \/ Tick
  \/ \E k \in Keys : \E order \in OrderData(k[1], k[2]) : Join(k[1], k[2], order)
  \/ \E q \in InFlight : JoinInsertPending(q)
  \/ \E state \in 0..MaxTokens : Redirect(state)
  \/ \E q \in InFlight : RedirectDelete(q)
  \/ \E q \in InFlight : RedirectExchange(q)
  \/ \E q \in InFlight : RedirectFetchUser(q)
  \/ \E q \in InFlight : RedirectInsertActive(q)
  \/ \E q \in InFlight : RedirectPutMember(q)

Spec == Init /\ [][Next]_vars

\* ------------------------------------------- generate_role_list on its own

\* The item ids a call is given a subset of: two team-member items, two
\* speaker items, a sprints item and an item of no category.
ItemSample == {569202, 637767, 569203, 637766, 569209, 1}

NoAnswers == [ k \in {} |-> "" ]

AnswerSample ==
  { NoAnswers,
    [ team |-> "Core Team" ],
    [ team |-> "Education", sponsor |-> "True" ],
    [ team |-> "Scientific Python", sponsor |-> "False" ],
    [ sponsor |-> "True" ],
    [ team |-> "Board" ] }

\* generate_role_list(items, answers) is called: `roles` is empty and every
\* item is still to be visited.
RolesCall(items, answers) ==
  [ pc |-> "loop", items |-> items, answers |-> answers, todo |-> items,
    roles |-> << >>, result |-> None ]

RolesInit ==
  /\ now = 0
  /\ pending = {}
  /\ active = {}
  /\ req = EmptyBag
  /\ response = NoResponse
  /\ issued = << >>
  /\ consumed = {}
  /\ exchanges = [ t \in 1..MaxTokens |-> 0 ]
  /\ grants = [ k \in Keys |-> 0 ]
  /\ \E items \in SUBSET ItemSample, answers \in AnswerSample :
       calc = RolesCall(items, answers)

\* One turn of `for item in items`: a set hands out its members in an order
\* of its own, so any item not yet visited may come next.
RolesVisit ==
  /\ calc.pc = "loop"
  /\ \E item \in calc.todo :
       LET r == RoleLoopBody(calc.roles, item, calc.answers)
       IN  calc' = IF r.ok
                   THEN [ calc EXCEPT !.roles = r.value, !.todo = @ \ {item} ]
                   ELSE [ calc EXCEPT !.pc = "raised", !.result = r ]
  /\ UNCHANGED << now, pending, active, req, response, issued, consumed,
                  exchanges, grants >>

\* The loop is over: the sponsor role, and return list(roles).
RolesReturn ==
  /\ calc.pc = "loop" /\ calc.todo = {}
  /\ calc' = [ calc EXCEPT !.pc = "returned",
                           !.result = Ok(RoleLoopEnd(calc.roles, calc.answers)) ]
  /\ UNCHANGED << now, pending, active, req, response, issued, consumed,
                  exchanges, grants >>

RolesNext == RolesVisit \/ RolesReturn

RolesSpec == RolesInit /\ [][RolesNext]_vars

\* -------------------------------------------- generate_nickname on its own

\* The answers a call is given: each of the three name questions answered
\* or not.
PrimaryNameSample == {"Ada", "Li"}

AdditionalNamesSample == {"J.", "Wei", ""}

NameOrderSample == {"True", "False", "true", ""}

\* The mapping with the keys of `keys` out of the three answers.
NameAnswers(keys, primary, additional, name_order) ==
  [ k \in keys |->
      CASE k = "primary_name"          -> primary
        [] k = "additional_names"      -> additional
        [] k = "east_asian_name_order" -> name_order ]

NicknameSample ==
  { NameAnswers(keys, p, a, o) :
      keys \in SUBSET {"primary_name", "additional_names", "east_asian_name_order"},
      p \in PrimaryNameSample, a \in AdditionalNamesSample, o \in NameOrderSample }

\* generate_nickname(answers) is called.
NicknameCall(answers) ==
  [ pc |-> "primary_name", answers |-> answers, result |-> None ]

NicknameInit ==
  /\ now = 0
  /\ pending = {}
  /\ active = {}
  /\ req = EmptyBag
  /\ response = NoResponse
  /\ issued = << >>
  /\ consumed = {}
  /\ exchanges = [ t \in 1..MaxTokens |-> 0 ]
  /\ grants = [ k \in Keys |-> 0 ]
  /\ \E answers \in NicknameSample : calc = NicknameCall(answers)

\* if "primary_name" not in answers: return None
NicknamePrimary ==
  /\ calc.pc = "primary_name"
  /\ calc' = IF "primary_name" \notin DOMAIN calc.answers
             THEN [ calc EXCEPT !.pc = "returned", !.result = Ok(None) ]
             ELSE [ calc EXCEPT !.pc = "east_asian_name_order" ]
  /\ UNCHANGED << now, pending, active, req, response, issued, consumed,
                  exchanges, grants >>

\* if answers["east_asian_name_order"] == "True": ... and the two returns;
\* the subscript raises KeyError on a mapping without the key.
NicknameOrder ==
  /\ calc.pc = "east_asian_name_order"
  /\ calc' =
       IF "east_asian_name_order" \notin DOMAIN calc.answers
       THEN [ calc EXCEPT !.pc = "raised", !.result = KeyError ]
       ELSE [ calc EXCEPT !.pc = "returned",
                          !.result = generate_nickname(calc.answers) ]
  /\ UNCHANGED << now, pending, active, req, response, issued, consumed,
                  exchanges, grants >>

NicknameNext == NicknamePrimary \/ NicknameOrder

NicknameSpec == NicknameInit /\ [][NicknameNext]_vars

\* ================================================================ claims

\* The ways a /redirect ends.
RedirectOutcomes ==
  {"InvalidToken", "Expired", "LinkingFailed", "GrantFailed", "Completed"}

Tokens == 1..MaxTokens

Issued == 1..Len(issued)

KeyOf(t) == << issued[t].order_code, issued[t].position >>

PendingRows(k) == { r \in pending : SameKey(r, k[1], k[2]) }

ActiveRows(k) == { r \in active : SameKey(r, k[1], k[2]) }

\* Some pending row carries state token t.
Carried(table, t) == \E r \in table : r.state_token = t

\* A later /join for the same ticket position has issued a newer token.
Superseded(t) == \E t2 \in Issued : t2 > t /\ KeyOf(t2) = KeyOf(t)

\* The places of /redirect after its DELETE.
PastConsume == {"exchange", "fetch_user", "insert_active", "put_member"}

\* How many requests in flight carry state token t and stand past the DELETE.
PastConsumeCount(t) ==
  LET holders == { q \in InFlight :
                     q.op = "redirect" /\ q.state = t /\ q.pc \in PastConsume }
  IN  BagCardinality([ q \in holders |-> req[q] ])

\* ---------------------------------------------------------------------- C1
\* C1: when /join writes the pending row of a ticket position again, the
\* table holds exactly one row for the position afterwards, the row of the
\* newer token, which the lookup of /redirect finds; no row carries an older
\* token of the position, and a /redirect with such a token is answered
\* InvalidToken at any age of the rows.
C1_Step ==
  /\ \A q \in InFlight :
       JoinInsertPending(q) /\ Len(issued') > Len(issued) =>
         LET t == Len(issued')
         IN  /\ { r \in pending' : SameKey(r, q.order_code, q.position) }
                  = { issued'[t] }
             /\ select_pending(pending', t) # None
             /\ select_pending(pending', t).created = now
             /\ \A t1 \in Issued :
                  KeyOf(t1) = << q.order_code, q.position >> =>
                    ~Carried(pending', t1)
  /\ \A t \in Issued : Superseded(t) => ~Carried(pending, t)
  /\ \A t \in Issued :
       Superseded(t) /\ Redirect(t) =>
         /\ response'.outcome = "InvalidToken"
         /\ pending' = pending

C1_SecondBeginWins == [][C1_Step]_vars

\* Two tokens of one position; the second has completed, the first is
\* answered InvalidToken although its /join is not STATE_TOKEN_LIFETIME ago
\* and no /redirect ever consumed it.
C1_Witness ==
  \E t1, t2 \in Issued :
    /\ t1 < t2 /\ KeyOf(t1) = KeyOf(t2)
    /\ response.op = "redirect" /\ response.state = t1
    /\ response.outcome = "InvalidToken"
    /\ t1 \notin consumed
    /\ now - issued[t1].created <= STATE_TOKEN_LIFETIME
    /\ t2 \in consumed /\ grants[KeyOf(t2)] = 1
    /\ \E a \in ActiveRows(KeyOf(t2)) : a.created = issued[t2].created

\* ---------------------------------------------------------------------- C2
\* C2: of the /redirect requests that carry one state token, at most one
\* stands past the DELETE, on its way to the linking calls, the active
\* upsert and the grant.
C2_OnePastConsume == \A t \in Tokens : PastConsumeCount(t) <= 1

\* ---------------------------------------------------------------------- C3
\* C3: the guild member of a ticket position is PUT at most once, and the
\* token endpoint is called at most once for a state token.
C3_NoDuplicateEffect ==
  /\ \A k \in Keys : grants[k] <= 1
  /\ \A t \in Tokens : exchanges[t] <= 1

\* ---------------------------------------------------------------------- C4
\* C4: a /redirect that is not answered Expired although its row is within
\* the lifetime, and whose linking calls succeed, writes the active row of
\* the ticket position; when it has, and when it returns, the position has
\* one active row and no pending row carries its token; a /redirect that
\* arrives with the token afterwards is answered InvalidToken.
C4_Step ==
  /\ \A q \in InFlight :
       RedirectExchange(q) /\ now - q.row.created <= STATE_TOKEN_LIFETIME =>
         response'.outcome # "Expired"
  /\ \A q \in InFlight :
       RedirectInsertActive(q) \/ RedirectPutMember(q) =>
         /\ Cardinality({ a \in active' :
                            SameKey(a, q.order_code, q.position) }) = 1
         /\ ~Carried(pending', q.state)
  /\ \A q \in InFlight :
       RedirectPutMember(q) =>
         response' \in { Response(q, "Completed"), Response(q, "GrantFailed") }
  /\ \A t \in Issued :
       /\ t \in consumed
       /\ \E a \in ActiveRows(KeyOf(t)) : a.created = issued[t].created
       /\ Redirect(t)
       => /\ response'.outcome = "InvalidToken"
          /\ active' = active

C4_CompleteOnce == [][C4_Step]_vars

\* A token completed once (one exchange, one grant, the active row of its
\* /join) and was then answered InvalidToken, with no newer token around.
C4_Witness ==
  \E t \in Issued :
    /\ response = [ op |-> "redirect", order_code |-> "", position |-> 0,
                    state |-> t, outcome |-> "InvalidToken" ]
    /\ t \in consumed /\ ~Superseded(t)
    /\ exchanges[t] = 1 /\ grants[KeyOf(t)] = 1
    /\ \E a \in ActiveRows(KeyOf(t)) :
         a.created = issued[t].created /\ a.user_id \in UserIds
    /\ PendingRows(KeyOf(t)) = {}

\* ---------------------------------------------------------------------- C5
\* C5: a /redirect whose row is older than STATE_TOKEN_LIFETIME at the
\* expiry test is answered Expired and ends there: the active table stays as
\* it is, no call to the token endpoint and no PUT of the member is made, and
\* no pending row carries its token any more.  The row it tests is the one
\* its token's /join wrote.
C5_Step ==
  /\ \A q \in InFlight :
       RedirectExchange(q) /\ now - q.row.created > STATE_TOKEN_LIFETIME =>
         /\ response' = Response(q, "Expired")
         /\ req' = req (-) SetToBag({q})
         /\ active' = active
         /\ exchanges' = exchanges
         /\ grants' = grants
         /\ ~Carried(pending', q.state)
         /\ q.state \in consumed
  /\ \A q \in InFlight :
       q.op = "redirect" => q.row.created = issued[q.state].created

C6_Step ==
  /\ \A q \in InFlight :
       q.op = "redirect" /\ q.pc \in PastConsume =>
         q.state \in consumed /\ ~Carried(pending, q.state)
  /\ \A t \in Tokens : exchanges[t] > 0 => t \in consumed
  /\ \A t \in Issued :
       t \in consumed /\ Redirect(t) =>
         /\ response'.outcome = "InvalidToken"
         /\ UNCHANGED << pending, active, exchanges, grants >>
  /\ response'.op = "redirect"
       /\ response'.outcome \in RedirectOutcomes \ {"InvalidToken"}
       => /\ response'.state \in consumed'
          /\ ~Carried(pending', response'.state)
  /\ response'.outcome = "LinkingFailed" => active' = active

C7_Step ==
  \A t \in 0..MaxTokens :
    ~Carried(pending, t) /\ Redirect(t) =>
      /\ response' = [ op |-> "redirect", order_code |-> "", position |-> 0,
                       state |-> t, outcome |-> "InvalidToken" ]
      /\ req' = req
      /\ UNCHANGED << pending, active, exchanges, grants, consumed, issued >>

C7_InvalidTokenNoEffect == [][C7_Step]_vars

\* A made-up token is answered InvalidToken while both tables hold rows.
C7_Witness ==
  /\ response.op = "redirect" /\ response.outcome = "InvalidToken"
  /\ response.state = BogusToken
  /\ pending # {} /\ active # {}

\* ---------------------------------------------------------------------- C8
\* C8: a /join for a ticket position that has an active row when the request
\* looks it up is answered AlreadyActive at once: no state token is issued,
\* no pending row is written and the active table stays as it is.
C8_Step ==
  \A k \in Keys : \A order \in OrderData(k[1], k[2]) :
    ActiveRows(k) # {} /\ Join(k[1], k[2], order) =>
      /\ response' = [ op |-> "join", order_code |-> k[1], position |-> k[2],
                       state |-> BogusToken, outcome |-> "AlreadyActive" ]
      /\ req' = req
      /\ UNCHANGED << pending, active, issued >>

C8_AlreadyActive == [][C8_Step]_vars

\* An AlreadyActive answer for a position with an active row and no pending
\* row.
C8_Witness ==
  /\ response.op = "join" /\ response.outcome = "AlreadyActive"
  /\ ActiveRows(<< response.order_code, response.position >>) # {}
  /\ PendingRows(<< response.order_code, response.position >>) = {}

\* ---------------------------------------------------------------------- C9
\* C9: the active row a /redirect writes is the row of its ticket position
\* and carries the id the user lookup returned and the created, nickname and
\* roles of the pending row its token's /join wrote; that created is the time
\* of the /join, and those roles and nickname are the ones derived there.
C9_Step ==
  /\ \A q \in InFlight :
       RedirectInsertActive(q) =>
         { a \in active' : SameKey(a, q.order_code, q.position) } =
           { [ order_code |-> issued[q.state].order_code,
               position   |-> issued[q.state].position,
               user_id    |-> q.user.some,
               created    |-> issued[q.state].created,
               nickname   |-> issued[q.state].nickname,
               roles      |-> issued[q.state].roles ] }
  /\ \A q \in InFlight :
       JoinInsertPending(q) /\ Len(issued') > Len(issued) =>
         LET row == issued'[Len(issued')]
         IN  /\ row.created = now
             /\ row.roles = generate_role_list(q.order.items, q.order.answers).value
             /\ row.nickname = generate_nickname(q.order.answers).value
             /\ row \in pending'

C9_ActiveRowCarriesPending == [][C9_Step]_vars

\* A /redirect has just written the active row, later than its /join: the
\* row has the time of the /join, and its roles.
C9_Witness ==
  \E q \in InFlight :
    /\ q.op = "redirect" /\ q.pc = "put_member"
    /\ now > issued[q.state].created
    /\ issued[q.state].roles # << >>
    /\ \E a \in ActiveRows(KeyOf(q.state)) :
         /\ a.created = issued[q.state].created
         /\ a.roles = issued[q.state].roles
         /\ a.nickname = issued[q.state].nickname
         /\ a.user_id = q.user.some

\* --------------------------------------------------------------------- C10
\* C10: whatever order the items are visited in, generate_role_list returns
\* a list with no role id twice and with the same set of role ids as the
\* visit in ascending order; it raises in one order only if it raises in
\* every order.
C10_OrderIndependent ==
  /\ calc.pc = "returned" =>
       LET ref == generate_role_list(calc.items, calc.answers)
       IN  /\ ref.ok
           /\ NoDuplicates(calc.result.value)
           /\ Range(calc.result.value) = Range(ref.value)
  /\ calc.pc = "raised" =>
       ~generate_role_list(calc.items, calc.answers).ok

\* A call with a team-member item, both speaker items and the sponsor answer
\* has returned four roles or more.
C10_Witness ==
  /\ calc.pc = "returned"
  /\ 569202 \in calc.items /\ 569203 \in calc.items /\ 637766 \in calc.items
  /\ Get(calc.answers, "sponsor", "") = "True"
  /\ Len(calc.result.value) >= 4

\* --------------------------------------------------------------------- C11
\* C11: generate_nickname returns None for answers without a primary name;
\* for answers with one it returns a nickname: the additional names, a space
\* and the primary name when the east-asian-name-order answer is "True", the
\* primary name, a space and the additional names for any other value of
\* that answer and when that answer is missing.
C11_NicknameOfEveryAnswers ==
  calc.pc = "returned" \/ calc.pc = "raised" =>
    LET answers    == calc.answers
        additional == Get(answers, "additional_names", "")
    IN  IF "primary_name" \notin DOMAIN answers
        THEN calc.result = Ok(None)
        ELSE IF Get(answers, "east_asian_name_order", "") = "True"
        THEN calc.result = Ok(Some(additional \o " " \o answers["primary_name"]))
        ELSE calc.result = Ok(Some(answers["primary_name"] \o " " \o additional))

\* --------------------------------------------------------------------- C12
\* C12: a ticket position that has an active row has no pending row.
C12_ActiveTerminal ==
  \A k \in Keys : ActiveRows(k) # {} => PendingRows(k) = {}

\* --------------------------------------------------------------------- C13
\* C13: in every state each ticket position has at most one pending row and
\* at most one active row; an upsert of /join leaves the pending row it
\* wrote as the position's only one, and an upsert of /redirect leaves the
\* active row it wrote as the position's only one, whatever was there.
C13_Step ==
  /\ \A k \in Keys :
       Cardinality(PendingRows(k)) <= 1 /\ Cardinality(ActiveRows(k)) <= 1
  /\ \A q \in InFlight :
       JoinInsertPending(q) /\ Len(issued') > Len(issued) =>
         { r \in pending' : SameKey(r, q.order_code, q.position) }
           = { [ order_code |-> q.order_code, position |-> q.position,
                 state_token |-> Len(issued'), created |-> now,
                 nickname |-> generate_nickname(q.order.answers).value,
                 roles |-> generate_role_list(q.order.items,
                                              q.order.answers).value ] }
  /\ \A q \in InFlight :
       RedirectInsertActive(q) =>
         { a \in active' : SameKey(a, q.order_code, q.position) }
           = { [ order_code |-> q.order_code, position |-> q.position,
                 user_id |-> q.user.some, created |-> q.row.created,
                 nickname |-> q.row.nickname, roles |-> q.row.roles ] }

C13_OneRowPerPosition == [][C13_Step]_vars

\* Two tokens were issued for one position and both went all the way: the
\* active row was written twice, at different times of /join, and the
\* position has one active row, the later writer's.
C13_Witness ==
  \E t1, t2 \in Issued :
    /\ t1 # t2 /\ KeyOf(t1) = KeyOf(t2)
    /\ issued[t1].created # issued[t2].created
    /\ grants[KeyOf(t1)] = 2
    /\ exchanges[t1] = 1 /\ exchanges[t2] = 1
    /\ ActiveRows(KeyOf(t1)) =
         { [ order_code |-> issued[t2].order_code,
             position |-> issued[t2].position, user_id |-> "99",
             created |-> issued[t2].created, nickname |-> issued[t2].nickname,
             roles |-> issued[t2].roles ] }

\* --------------------------------------------------------------------- C14
\* C14: at the expiry test /redirect is answered Expired exactly when the
\* age of its pending row is strictly greater than the state_token_lifetime
\* of the settings.
C14_Step ==
  \A q \in InFlight :
    RedirectExchange(q) =>
      ( response'.outcome = "Expired"
          <=> now - q.row.created > Settings.state_token_lifetime )

C14_ExpiredByConfiguredLifetime == [][C14_Step]_vars

\* --------------------------------------------------------------------- C15
\* C15: no step of /join or /redirect, with any outcome, and no passing of
\* time takes the active row of a ticket position away: a position that has
\* an active row has one after every step.
C15_Step ==
  \A k \in Keys : ActiveRows(k) # {} =>
    { a \in active' : SameKey(a, k[1], k[2]) } # {}

C15_ActiveNeverDeleted == [][C15_Step]_vars

\* A position with an active row, after the DELETE and the Expired answer of
\* a /redirect with a token of the same position.
C15_Witness ==
  /\ response.op = "redirect" /\ response.outcome = "Expired"
  /\ ActiveRows(<< response.order_code, response.position >>) # {}
  /\ response.state \in consumed

\* --------------------------------------------------------------------- C16
\* C16: when the PUT of the guild member is refused, /redirect is answered
\* GrantFailed and the step changes neither table: the position keeps its
\* active row, no pending row carries the token, and, unless a /redirect
\* with another token of the position has reached the linking calls, the
\* active row is the one this request wrote.
C16_Step ==
  \A q \in InFlight :
    RedirectPutMember(q) /\ response'.outcome # "Completed" =>
      /\ response' = Response(q, "GrantFailed")
      /\ active' = active /\ pending' = pending
      /\ Cardinality(ActiveRows(<< q.order_code, q.position >>)) = 1
      /\ ~Carried(pending', q.state)
      /\ q.state \in consumed
      /\ ( \A t \in Issued :
             t # q.state /\ KeyOf(t) = << q.order_code, q.position >> =>
               exchanges[t] = 0 )
         => ActiveRows(<< q.order_code, q.position >>)
              = { [ order_code |-> q.order_code, position |-> q.position,
                    user_id |-> q.user.some, created |-> q.row.created,
                    nickname |-> q.row.nickname, roles |-> q.row.roles ] }

C16_GrantFailedKeepsActive == [][C16_Step]_vars

\* A GrantFailed answer: the member was PUT once, the position has the
\* active row of the token's /join and no pending row.
C16_Witness ==
  /\ response.op = "redirect" /\ response.outcome = "GrantFailed"
  /\ grants[<< response.order_code, response.position >>] = 1
  /\ PendingRows(<< response.order_code, response.position >>) = {}
  /\ \E a \in ActiveRows(<< response.order_code, response.position >>) :
       /\ a.created = issued[response.state].created
       /\ a.user_id \in UserIds

\* --------------------------------------------------------------------- C17
\* The awaits of /redirect in the order the handler passes them.
PcRank(pc) ==
  CASE pc = "delete_pending" -> 1
    [] pc = "exchange"       -> 2
    [] pc = "fetch_user"     -> 3
    [] pc = "insert_active"  -> 4
    [] pc = "put_member"     -> 5

\* C17: a /redirect is answered once, with one of InvalidToken, Expired,
\* LinkingFailed, GrantFailed and Completed, and what is sent for one of them
\* differs from what is sent for every other; a step of a /redirect in
\* flight either answers it and takes it out of flight or takes it to its
\* next await, never back, and calls the token endpoint and the member PUT at
\* most once; a refused token exchange or user lookup is answered
\* LinkingFailed, with the page of the 500 handler.
C17_Step ==
  /\ response'.op = "redirect" =>
       /\ response'.outcome \in RedirectOutcomes
       /\ \A o \in RedirectOutcomes \ {response'.outcome} :
            RedirectResult(o) # RedirectResult(response'.outcome)
  /\ \A q \in InFlight :
       \/ RedirectDelete(q) \/ RedirectExchange(q) \/ RedirectFetchUser(q)
       \/ RedirectInsertActive(q) \/ RedirectPutMember(q)
       => /\ \/ /\ req' = req (-) SetToBag({q})
                /\ \E o \in RedirectOutcomes : response' = Response(q, o)
             \/ /\ response' = NoResponse
                /\ \E q2 \in BagToSet(req') :
                     /\ req' = (req (-) SetToBag({q})) (+) SetToBag({q2})
                     /\ q2.op = "redirect" /\ q2.state = q.state
                     /\ PcRank(q2.pc) = PcRank(q.pc) + 1
          /\ \A t \in Tokens : exchanges'[t] <= exchanges[t] + 1
          /\ \A k \in Keys : grants'[k] <= grants[k] + 1
  /\ \A q \in InFlight :
       /\ RedirectExchange(q) \/ RedirectFetchUser(q)
       /\ response' # NoResponse
       /\ ~Expired(q.row.created, now)
       => /\ response' = Response(q, "LinkingFailed")
          /\ RedirectResult(response'.outcome) = custom_500_handler
          /\ RedirectResult(response'.outcome).status_code = 400
          /\ UNCHANGED << active, pending, grants >>

C17_OneOutcomeEach == [][C17_Step]_vars

\* A LinkingFailed answer to a /redirect that called the token endpoint once
\* and wrote no active row.
C17_Witness ==
  /\ response.op = "redirect" /\ response.outcome = "LinkingFailed"
  /\ exchanges[response.state] = 1
  /\ ActiveRows(<< response.order_code, response.position >>) = {}
  /\ RedirectResult(response.outcome).message = "An internal error occurred"

\* --------------------------------------------------------------------- C18
\* The item ids of the three categories.
KnownItems == ITEM_IDS.team_member \cup ITEM_IDS.speaker \cup ITEM_IDS.sprints

\* C18: a call of generate_role_list that returns gives the role ids the
\* items of the three categories give by themselves, so an item of no
\* category adds none; a call raises, with KeyError and no list, only when a
\* team-member item comes with a team answer that names no known team, and
\* then no visiting order lets it return; without a team-member item the
\* call returns whatever the team answer is.
C18_UnknownItemsAndTeams ==
  LET teamItem  == calc.items \cap ITEM_IDS.team_member # {}
      knownTeam == /\ "team" \in DOMAIN calc.answers
                   /\ calc.answers["team"] \in TeamNames
  IN  /\ calc.pc = "returned" =>
           /\ ~teamItem \/ knownTeam
           /\ calc.result.ok
           /\ Range(calc.result.value)
                = Range(generate_role_list(calc.items \cap KnownItems,
                                           calc.answers).value)
      /\ calc.pc = "raised" =>
           /\ teamItem /\ ~knownTeam
           /\ calc.result = KeyError
      /\ calc.pc = "loop" /\ calc.todo = {} => ~teamItem \/ knownTeam
      /\ calc.pc = "loop" =>
           Range(calc.roles)
             = Range(RoleLoop(<< >>,
                              Ascending((calc.items \ calc.todo) \cap KnownItems),
                              calc.answers).value)

\* A call with a team-member item, a speaker item and an item of no
\* category, and the team answer "Board": it raised after the speaker role
\* had been added.
C18_Witness ==
  /\ calc.pc = "raised"
  /\ 569202 \in calc.items /\ 569203 \in calc.items /\ 1 \in calc.items
  /\ calc.answers = [ team |-> "Board" ]
  /\ calc.roles = << ROLE_IDS.speaker >>
  /\ 1 \notin calc.todo

\* --------------------------------------------------------------------- C19
\* C19 as stated: the DELETE of a /redirect with token t leaves every
\* pending row that carries another token in place.
C19_Original_Step ==
  \A q \in InFlight :
    RedirectDelete(q) =>
      \A r \in pending : r.state_token # q.state => r \in pending'

C19_Step ==
  /\ \A q \in InFlight :
       RedirectDelete(q) =>
         /\ { r \in pending' : SameKey(r, q.order_code, q.position) } = {}
         /\ pending' = pending \ PendingRows(<< q.order_code, q.position >>)
  /\ \A t \in Issued :
       /\ t \notin consumed /\ ~Superseded(t) /\ ~Carried(pending, t)
       /\ Redirect(t)
       => /\ response'.outcome = "InvalidToken"
          /\ \E t1 \in consumed : t1 < t /\ KeyOf(t1) = KeyOf(t)

C20_Original_Step ==
  LET k == << response.order_code, response.position >>
  IN  /\ response.op = "redirect" /\ response.outcome = "GrantFailed"
      /\ PendingRows(k) = {}
      /\ \A q \in InFlight : q.op = "redirect" => << q.order_code, q.position >> # k
      => /\ grants'[k] = grants[k]
         /\ \A t \in 1..Len(issued') : t > Len(issued) =>
              << issued'[t].order_code, issued'[t].position >> # k
         /\ { r \in pending' : SameKey(r, k[1], k[2]) } = {}

Settled(k) ==
  /\ ActiveRows(k) # {}
  /\ PendingRows(k) = {}
  /\ \A q \in InFlight : << q.order_code, q.position >> # k

\* C20, amended: a ticket position with an active row, no pending row and no
\* request in flight stays so after every step, as it is after a GrantFailed
\* answer with nothing else under way: no step PUTs its member, issues a
\* token for it or changes its active row; a /join for it is answered
\* AlreadyActive and a /redirect with a token of it InvalidToken.
C20_Step ==
  \A k \in Keys :
    Settled(k) =>
      /\ { a \in active' : SameKey(a, k[1], k[2]) } = ActiveRows(k)
      /\ { r \in pending' : SameKey(r, k[1], k[2]) } = {}
      /\ \A q \in BagToSet(req') : << q.order_code, q.position >> # k
      /\ grants'[k] = grants[k]
      /\ \A t \in 1..Len(issued') : t > Len(issued) =>
           << issued'[t].order_code, issued'[t].position >> # k
      /\ \A order \in OrderData(k[1], k[2]) :
           Join(k[1], k[2], order) =>
             response' = [ op |-> "join", order_code |-> k[1],
                           position |-> k[2], state |-> BogusToken,
                           outcome |-> "AlreadyActive" ]
      /\ \A t \in Issued :
           KeyOf(t) = k /\ Redirect(t) => response'.outcome = "InvalidToken"

RowsKept(k) ==
  /\ { r \in pending' : SameKey(r, k[1], k[2]) } = PendingRows(k)
  /\ { a \in active' : SameKey(a, k[1], k[2]) } = ActiveRows(k)

\* C21: a request for one ticket position leaves the rows of every other
\* position as they are: no step of a /join for position A, and no step of a
\* /redirect whose state token was issued for position A, changes a pending
\* row or an active row of a position B other than A, whatever else is under
\* way; the row a /redirect works on is of the position its token was
\* issued for.
C21_Step ==
  /\ \A q \in InFlight :
       q.op = "join" /\ JoinInsertPending(q) =>
         \A k \in Keys \ {<< q.order_code, q.position >>} : RowsKept(k)
  /\ \A q \in InFlight :
       /\ q.op = "redirect"
       /\ \/ RedirectDelete(q) \/ RedirectExchange(q) \/ RedirectFetchUser(q)
          \/ RedirectInsertActive(q) \/ RedirectPutMember(q)
       => /\ q.state \in Issued
          /\ << q.row.order_code, q.row.position >> = KeyOf(q.state)
          /\ \A k \in Keys \ {KeyOf(q.state)} : RowsKept(k)
  /\ \A a \in Keys : \A order \in OrderData(a[1], a[2]) :
       Join(a[1], a[2], order) => \A k \in Keys \ {a} : RowsKept(k)
  /\ \A t \in Issued :
       Redirect(t) => \A k \in Keys \ {KeyOf(t)} : RowsKept(k)

C21_OtherPositionsUntouched == [][C21_Step]_vars

\* Position B was started first and holds the pending row its /join wrote;
\* position A was then started and completed, every write of its /join and
\* its /redirect made with the row of B in the table, and the /redirect is
\* answered Completed with that row as it was.
C21_Witness ==
  \E t1, t2 \in Issued :
    /\ t1 < t2 /\ KeyOf(t1) # KeyOf(t2)
    /\ response.op = "redirect" /\ response.state = t2
    /\ response.outcome = "Completed"
    /\ consumed = {t2}
    /\ PendingRows(KeyOf(t1)) = {issued[t1]}
    /\ ActiveRows(KeyOf(t1)) = {}
    /\ PendingRows(KeyOf(t2)) = {}
    /\ \E a \in ActiveRows(KeyOf(t2)) : a.created = issued[t2].created

====
